---- MODULE Spec2Model ----
(***************************************************************************)
(* A model of the SABnzbd API client: the request encoder of methodCall    *)
(* and of the multipart operations, the response interpreter (the then /   *)
(* catch chain on got's promise) and the public operations built on them.  *)
(*                                                                         *)
(* Two implementations of the class Client are in the repository: the one  *)
(* whose operations wrap methodCall in try/catch (src/src/Types.ts, from   *)
(* line 200) and the older one whose promise executors have no catch       *)
(* (src/src/Client.ts).  A call records which one runs it in `impl`.       *)
(***************************************************************************)
EXTENDS Integers, Sequences, FiniteSets

\* ------------------------------------------------------------------ bounds
MaxCalls == 2      \* promises the caller holds at the same time
MaxIds   == 2      \* longest list of identifiers / keywords a caller passes
MaxPosts == 2      \* calls a caller hands the same FormData to

VARIABLES
    mHost,      \* Client.mHost
    mApiKey,    \* Client.mApiKey
    calls,      \* per call: the promises and the position of its callbacks
    wire,       \* per call: the request handed to got and not yet answered
    forms       \* the caller's FormData objects (mutated by addFile/retry)

vars == <<mHost, mApiKey, calls, wire, forms>>

CallIds == 1..MaxCalls

\* ------------------------------------------------------- JavaScript values
Undefined == [t |-> "undefined"]
Null      == [t |-> "null"]
Str(s)    == [t |-> "string", s |-> s]
Num(n)    == [t |-> "number", n |-> n]
Bool(b)   == [t |-> "boolean", b |-> b]
Arr(q)    == [t |-> "array", a |-> q]
Obj(f)    == [t |-> "object", o |-> f]

\* if( v ): the ToBoolean conversion.
Truthy(v) ==
    CASE v.t = "undefined" -> FALSE
      [] v.t = "null"      -> FALSE
      [] v.t = "string"    -> v.s # ""
      [] v.t = "number"    -> v.n # 0
      [] v.t = "boolean"   -> v.b
      [] OTHER             -> TRUE

Digit(d) ==
    CASE d = 0 -> "0" [] d = 1 -> "1" [] d = 2 -> "2" [] d = 3 -> "3"
      [] d = 4 -> "4" [] d = 5 -> "5" [] d = 6 -> "6" [] d = 7 -> "7"
      [] d = 8 -> "8" [] d = 9 -> "9"

RECURSIVE NatString(_)
NatString(n) ==
    IF n < 10 THEN Digit(n) ELSE NatString(n \div 10) \o Digit(n % 10)

\* Number.prototype.toString / String(n) for an integer.
NumberString(n) == IF n < 0 THEN "-" \o NatString(-n) ELSE NatString(n)

\* String(v): the conversion URLSearchParams.append and FormData.append apply
\* to the value they are given.  Array.prototype.join writes an undefined or
\* null element as the empty string.
RECURSIVE JSString(_)
RECURSIVE Join(_, _)
Join(q, sep) ==
    LET first == IF q[1].t \in {"undefined", "null"} THEN "" ELSE JSString(q[1])
    IN  IF Len(q) = 0 THEN ""
        ELSE IF Len(q) = 1 THEN first
        ELSE first \o sep \o Join(Tail(q), sep)

JSString(v) ==
    CASE v.t = "undefined" -> "undefined"
      [] v.t = "null"      -> "null"
      [] v.t = "string"    -> v.s
      [] v.t = "number"    -> NumberString(v.n)
      [] v.t = "boolean"   -> (IF v.b THEN "true" ELSE "false")
      [] v.t = "array"     -> Join(v.a, ",")
      [] OTHER             -> "[object Object]"

\* ------------------------------------------------ parameter lists (fields)
\* A URLSearchParams, the fields of a FormData and the own enumerable
\* properties of an argument object are sequences of <<key, value>>.
Keys(p) == {p[i][1] : i \in 1..Len(p)}

Count(p, k) == Cardinality({i \in 1..Len(p) : p[i][1] = k})

\* URLSearchParams.append(name, value)
AppendParam(p, k, v) == Append(p, <<k, JSString(v)>>)

\* URLSearchParams.get(name): the value of the first pair with that name.
FirstIndex(p, k) == CHOOSE i \in 1..Len(p) :
                        /\ p[i][1] = k
                        /\ \A j \in 1..(i - 1) : p[j][1] # k

USPGet(p, k) == IF k \in Keys(p) THEN Str(p[FirstIndex(p, k)][2]) ELSE Null

\* args.get(param) ?? ''
OrEmpty(v) == IF v.t \in {"null", "undefined"} THEN Str("") ELSE v

\* ----------------------------------------------------------- methodCall
NoArgs     == [kind |-> "none"]
USPArgs(p) == [kind |-> "usp", p |-> p]
ObjArgs(o) == [kind |-> "obj", o |-> o]

\* for( let param of args.keys() ) append(param, args.get(param) ?? '')
CopySearchParams(p) ==
    [i \in 1..Len(p) |-> <<p[i][1], JSString(OrEmpty(USPGet(p, p[i][1])))>>]

\* for( let argKey in args ) append(argKey, args[argKey])
CopyObject(o) == [i \in 1..Len(o) |-> <<o[i][1], JSString(o[i][2])>>]

CallerParams(args) ==
    CASE args.kind = "none" -> <<>>
      [] args.kind = "usp"  -> CopySearchParams(args.p)
      [] args.kind = "obj"  -> CopyObject(args.o)

\* A key written into the code in place of the client's.
MandatoryFields_fixedKey(method, output, key) ==
    << <<"mode", method>>, <<"output", output>>, <<"apikey", "key1">> >>

MandatoryFields(method, output, key) ==
    << <<"mode", method>>, <<"output", output>>, <<"apikey", key>> >>

\* The mandatory fields appended before the caller's arguments.
methodCallParams_mandatoryFirst(method, args, output, key) ==
    MandatoryFields(method, output, key) \o CallerParams(args)

\* The search parameters of apiUrl when got(apiUrl) is called.
methodCallParams(method, args, output, key) ==
    CallerParams(args) \o MandatoryFields(method, output, key)

ApiUrl(host) == host \o "/api"

\* -------------------------------------------------------------- promises
Pending     == [state |-> "pending"]
Resolved(v) == [state |-> "resolved", value |-> v]
Rejected(e) == [state |-> "rejected", error |-> e]

\* What a promise executor or callback does to the promise of the operation.
Resolve(v) == [do |-> "resolve", value |-> v]
Reject(e)  == [do |-> "reject", error |-> e]

\* The last resolve()/reject() call decides the promise.
Settle_lastWins(p, call) ==
    IF call.do = "resolve" THEN Resolved(call.value) ELSE Rejected(call.error)

\* resolve()/reject() on a promise: only the first call settles it.
Settle(p, call) ==
    IF p.state # "pending" THEN p
    ELSE IF call.do = "resolve" THEN Resolved(call.value)
    ELSE Rejected(call.error)

RECURSIVE SettleAll(_, _)
SettleAll(p, effects) ==
    IF Len(effects) = 0 THEN p
    ELSE SettleAll(Settle(p, Head(effects)), Tail(effects))

\* ---------------------------------------------------------------- errors
\* An error message is the sequence of the pieces it is concatenated from, so
\* that "starts with" and "contains" can be read off it.
StartsWith(m, piece) == Len(m) >= 1 /\ m[1] = piece

Contains(m, sub) ==
    \E i \in 0..(Len(m) - Len(sub)) : SubSeq(m, i + 1, i + Len(sub)) = sub

\* new Error(message) and the errors the runtime and got throw.
Err(name, message) == [name |-> name, isError |-> TRUE, message |-> message]
NonError(what)     == [name |-> "thrown value", isError |-> FALSE, message |-> what]

TransportPrefix == "Error accessing SABnzbd host"

\* The Transport Error without the cause.
TransportError_noCause(cause) == Err("Error", <<TransportPrefix>>)

\* reject(new Error('Error accessing SABnzbd host: ' + error.message)), or
\* without the cause when what was thrown is no Error.
TransportError(cause) ==
    IF cause.isError
    THEN Err("Error", <<TransportPrefix, ": ">> \o cause.message)
    ELSE Err("Error", <<TransportPrefix>>)

DecodeError   == Err("Error", <<"Error parsing response as JSON">>)
ProtocolError == Err("Error", <<"Invalid response from SABnzbd">>)
SyntaxError   == Err("SyntaxError", <<"Unexpected token < in JSON at position 0">>)
TypeError     == Err("TypeError", <<"Cannot read properties of null">>)
NotIterable   == Err("TypeError", <<"results is not iterable">>)

IsTransportError(e) == e.isError /\ StartsWith(e.message, TransportPrefix)

\* ------------------------------------------------------ decoded responses
\* value.field on a decoded value: a TypeError on null and undefined,
\* undefined when the value has no such property.
PropThrows(r) == r.t \in {"null", "undefined"}

GetProp(r, f) ==
    IF r.t = "object" /\ f \in DOMAIN r.o THEN r.o[f] ELSE Undefined

\* for( let k in v ): the keys of an object, nothing for undefined and null.
ForInKeys(v) == IF v.t = "object" THEN DOMAIN v.o ELSE {}

\* A response body: the text, and the value JSON.parse gives for it when it
\* parses.
JsonBody(raw, v) == [raw |-> raw, parses |-> TRUE, value |-> v]
BadBody(raw)     == [raw |-> raw, parses |-> FALSE]

\* What a callback did: the resolve/reject calls it made, in order, and the
\* exception that ended it (Nothing when it returned).
Nothing == [name |-> "nothing", isError |-> FALSE, message |-> <<>>]
Ran(effects)      == [effects |-> effects, thrown |-> Nothing]
Threw(effects, e) == [effects |-> effects, thrown |-> e]

\* ------------------------------------------------------------------- got
NoOutcome           == [kind |-> "none"]
GotResponse(st, b)  == [kind |-> "response", statusCode |-> st, body |-> b]
GotError(e)         == [kind |-> "error", error |-> e]

HTTPError(st) == Err("HTTPError", <<"Response code ", NumberString(st)>>)

\* got with its default options: a response whose status is 2xx fulfils the
\* promise, every other status rejects it with an HTTPError.
GotOutcome(st, b) ==
    IF st >= 200 /\ st <= 299 THEN GotResponse(st, b) ELSE GotError(HTTPError(st))

\* -------------------------------------------- the then / catch callbacks
\* got(apiUrl).then(response => ...) of methodCall.
methodCallThen(output, response) ==
    IF response.statusCode = 200
    THEN IF output = "json"
         THEN IF response.body.parses
              THEN Ran(<<Resolve(response.body.value)>>)
              ELSE Threw(<<>>, SyntaxError)
         ELSE Ran(<<Resolve(Str(response.body.raw))>>)
    ELSE Ran(<<>>)

\* got.post(...).then(response => ...) of addFile and historyRetryWithNZB:
\* JSON.parse inside try/catch.
multipartThen(response) ==
    IF response.statusCode = 200
    THEN IF response.body.parses
         THEN Ran(<<Resolve(response.body.value)>>)
         ELSE Ran(<<Reject(DecodeError)>>)
    ELSE Ran(<<>>)

\* The same callback in Client.ts: JSON.parse is not inside a try block (the
\* try around got.post(...) does not reach into the callback).
multipartThenNoTry(response) ==
    IF response.statusCode = 200
    THEN IF response.body.parses
         THEN Ran(<<Resolve(response.body.value)>>)
         ELSE Threw(<<>>, SyntaxError)
    ELSE Ran(<<>>)

\* .catch(error => ...) of methodCall, addFile and historyRetryWithNZB.
catchHandler(error) == Ran(<<Reject(TransportError(error))>>)

\* ------------------------------- the operations' code after the await
\* resolve(results): the operations that hand the decoded response on.
passThrough(r) == Ran(<<Resolve(r)>>)

\* resolve(resultsObj.queue), resultsObj.history, results.files,
\* results['status'].
projectField(r, f) ==
    IF PropThrows(r) THEN Threw(<<>>, TypeError)
    ELSE Ran(<<Resolve(GetProp(r, f))>>)

\* The field resolved without the test for its presence.
requireField_unchecked(r, f) ==
    IF PropThrows(r) THEN Threw(<<>>, TypeError)
    ELSE Ran(<<Resolve(GetProp(r, f))>>)

\* if( results.f ) resolve(results.f) else reject(new Error("Invalid ...")):
\* version, auth, getCats, getScripts.
requireField(r, f) ==
    IF PropThrows(r) THEN Threw(<<>>, TypeError)
    ELSE IF Truthy(GetProp(r, f)) THEN Ran(<<Resolve(GetProp(r, f))>>)
    ELSE Ran(<<Reject(ProtocolError)>>)

\* 'Error in API call' + (results.error ? `: ${results.error}` : '')
ApiCallError(r) ==
    Err("Error", <<"Error in API call">> \o
                 (IF Truthy(GetProp(r, "error"))
                  THEN <<": ", JSString(GetProp(r, "error"))>> ELSE <<>>))

\* translateText in Types.ts.
translateBody(r) ==
    IF PropThrows(r) THEN Threw(<<>>, TypeError)
    ELSE IF Truthy(GetProp(r, "value")) THEN Ran(<<Resolve(GetProp(r, "value"))>>)
    ELSE Ran(<<Reject(ApiCallError(r))>>)

\* translateText in Client.ts: `return results.value` settles nothing.
translateBodyReturn(r) ==
    IF PropThrows(r) THEN Threw(<<>>, TypeError)
    ELSE IF Truthy(GetProp(r, "value")) THEN Ran(<<>>)
    ELSE Ran(<<Reject(ApiCallError(r))>>)

\* ErrorType.Warning, the first member of the enum.
ErrorTypeWarning == Num(0)

\* No record is found invalid.
InvalidWarning_never(result) == FALSE

InvalidWarning(result) ==
    \/ ~Truthy(GetProp(result, "text"))
    \/ GetProp(result, "type") # Str("WARNING")
    \/ ~Truthy(GetProp(result, "time"))

\* for( let result of results ) { if( invalid ) reject(...); warnings.push(...) }
\* resolve(warnings)
RECURSIVE warningsLoop(_, _, _)
warningsLoop(items, effects, warnings) ==
    IF Len(items) = 0 THEN Ran(Append(effects, Resolve(Arr(warnings))))
    ELSE LET result == Head(items) IN
         IF PropThrows(result) THEN Threw(effects, TypeError)
         ELSE warningsLoop(
                Tail(items),
                IF InvalidWarning(result)
                THEN Append(effects, Reject(ProtocolError)) ELSE effects,
                Append(warnings, Obj([text |-> GetProp(result, "text"),
                                      type |-> ErrorTypeWarning,
                                      time |-> GetProp(result, "time")])))

warningsBody(r) ==
    IF r.t # "array" THEN Threw(<<>>, NotIterable)
    ELSE warningsLoop(r.a, <<>>, <<>>)

\* A Map<string, number> built by set(): the keys and the value of each.
MapOf(f) == [t |-> "map", m |-> f]

\* The record of one server with articles_success read from the source
\* articles_success.
serverRecord_fromSuccess(sr) ==
    Obj([day   |-> GetProp(sr, "day"),
         week  |-> GetProp(sr, "week"),
         month |-> GetProp(sr, "month"),
         total |-> GetProp(sr, "total"),
         daily |-> MapOf([d \in ForInKeys(GetProp(sr, "daily")) |->
                            GetProp(GetProp(sr, "daily"), d)]),
         articles_tried |->
             MapOf([d \in ForInKeys(GetProp(sr, "articles_tried")) |->
                      GetProp(GetProp(sr, "articles_tried"), d)]),
         articles_success |->
             MapOf([d \in ForInKeys(GetProp(sr, "articles_success")) |->
                      GetProp(GetProp(sr, "articles_success"), d)])])

\* The record of one server with articles_success keyed by the dates of
\* articles_tried.
serverRecord_triedDates(sr) ==
    Obj([day   |-> GetProp(sr, "day"),
         week  |-> GetProp(sr, "week"),
         month |-> GetProp(sr, "month"),
         total |-> GetProp(sr, "total"),
         daily |-> MapOf([d \in ForInKeys(GetProp(sr, "daily")) |->
                            GetProp(GetProp(sr, "daily"), d)]),
         articles_tried |->
             MapOf([d \in ForInKeys(GetProp(sr, "articles_tried")) |->
                      GetProp(GetProp(sr, "articles_tried"), d)]),
         articles_success |->
             MapOf([d \in ForInKeys(GetProp(sr, "articles_tried")) |->
                      GetProp(GetProp(sr, "articles_tried"), d)])])

\* The ServerStats record of one server (Types.ts 1009-1026).
serverRecord(sr) ==
    Obj([day   |-> GetProp(sr, "day"),
         week  |-> GetProp(sr, "week"),
         month |-> GetProp(sr, "month"),
         total |-> GetProp(sr, "total"),
         daily |-> MapOf([d \in ForInKeys(GetProp(sr, "daily")) |->
                            GetProp(GetProp(sr, "daily"), d)]),
         articles_tried |->
             MapOf([d \in ForInKeys(GetProp(sr, "articles_tried")) |->
                      GetProp(GetProp(sr, "articles_tried"), d)]),
         articles_success |->
             MapOf([d \in ForInKeys(GetProp(sr, "articles_success")) |->
                      GetProp(GetProp(sr, "articles_tried"), d)])])

\* serverResult.day on a null server, serverResult.articles_tried[date] when
\* articles_tried is missing.
serverThrows(sr) ==
    \/ PropThrows(sr)
    \/ /\ ForInKeys(GetProp(sr, "articles_success")) # {}
       /\ PropThrows(GetProp(sr, "articles_tried"))

serverStatsBody(r) ==
    IF PropThrows(r) THEN Threw(<<>>, TypeError)
    ELSE LET servers == GetProp(r, "servers")
             names   == ForInKeys(servers)
         IN  IF \E n \in names : serverThrows(servers.o[n])
             THEN Threw(<<>>, TypeError)
             ELSE Ran(<<Resolve(Obj(
                    [day     |-> GetProp(r, "day"),
                     week    |-> GetProp(r, "week"),
                     month   |-> GetProp(r, "month"),
                     total   |-> GetProp(r, "total"),
                     servers |-> MapOf([n \in names |-> serverRecord(servers.o[n])])]))>>)

\* ------------------------------------------------------ operation tables
\* The operations whose promise the then/catch callbacks settle themselves:
\* methodCall, and the two multipart operations, which do not go through it.
MultipartOps == {"addFile", "historyRetryWithNZB"}
DirectOps    == MultipartOps \cup {"methodCall"}

\* The operations Client.ts has as well (the others exist in Types.ts only).
ClientTsOps ==
    {"queue", "queuePause", "queueResume", "queueSort", "queuePurge",
     "addUrl", "addPath", "addFile", "jobPause", "jobResume", "jobDelete",
     "jobChangeName", "changePriority", "getFiles", "version", "auth",
     "warnings", "getCats", "getScripts", "serverStats", "getConfig",
     "setConfig", "setConfigDefault", "translateText", "methodCall"}

Impls(op) == IF op \in ClientTsOps THEN {"Types.ts", "Client.ts"} ELSE {"Types.ts"}

\* The code of the operation between the await and the end of its try block.
opBody(impl, op, r) ==
    CASE op = "queue"       -> projectField(r, "queue")
      [] op = "history"     -> projectField(r, "history")
      [] op = "getFiles"    -> projectField(r, "files")
      [] op = "status"      -> projectField(r, "status")
      [] op = "version"     -> requireField(r, "version")
      [] op = "auth"        -> requireField(r, "auth")
      [] op = "getCats"     -> requireField(r, "categories")
      [] op = "getScripts"  -> requireField(r, "scripts")
      [] op = "warnings"    -> warningsBody(r)
      [] op = "serverStats" -> serverStatsBody(r)
      [] op = "translateText" ->
            IF impl = "Types.ts" THEN translateBody(r) ELSE translateBodyReturn(r)
      [] OTHER              -> passThrough(r)

\* try { ... await this.methodCall(...) ... } catch( error ) { reject(error) }
\* in Types.ts: what the await throws and what the body throws is rejected.
\* `async queue()` of Client.ts rejects its promise with what it throws too.
withCatch(run) ==
    IF run.thrown = Nothing THEN run.effects
    ELSE Append(run.effects, Reject(run.thrown))

\* new Promise(async resolve => { ... }) in Client.ts: what the executor
\* throws rejects the executor's own promise, which nobody holds.
withoutCatch(run) == run.effects

\* The resolve/reject calls the operation makes once methodCall's promise
\* `chain` has settled.
continuation(impl, op, chain) ==
    LET run == IF chain.state = "rejected" THEN Threw(<<>>, chain.error)
               ELSE opBody(impl, op, chain.value)
    IN  IF impl = "Types.ts" \/ op = "queue" THEN withCatch(run)
        ELSE withoutCatch(run)

\* ----------------------------------------------------------------- state
IdleCall == [pc |-> "idle"]

\* `requests` counts the calls of got / got.post the operation has made.
NewCall(impl, op, output) ==
    [pc |-> "sent", impl |-> impl, op |-> op, output |-> output,
     requests |-> 1, got |-> NoOutcome, thrown |-> Nothing,
     chain |-> Pending, outer |-> Pending, settles |-> <<>>]

NoRequest == [transport |-> "none"]
\* new FormData(): no field yet.
EmptyForm == <<>>

FormIds == {"formData"}

Hosts   == {"http://sab:8080/sabnzbd"}
ApiKeys == {"key1", "key2"}

\* constructor(host, apiKey)
Init ==
    /\ mHost \in Hosts
    /\ mApiKey \in ApiKeys
    /\ calls = [c \in CallIds |-> IdleCall]
    /\ wire = [c \in CallIds |-> NoRequest]
    /\ forms = [f \in FormIds |-> EmptyForm]

\* The caller awaits an operation before it starts the next one.
CallerIdle == \A c \in CallIds : calls[c].pc = "idle"

\* The synchronous part of methodCall (Types.ts 1335-1353), run inside the
\* executor of the operation `op`: builds apiUrl and hands it to got.
Dispatch(c, impl, op, opt, method, args, output) ==
    /\ calls' = [calls EXCEPT ![c] = NewCall(impl, op, output)]
    /\ wire' = [wire EXCEPT ![c] =
                  [transport |-> "query", op |-> op, url |-> ApiUrl(mHost),
                   method |-> method, args |-> args, output |-> output,
                   opt |-> opt,
                   params |-> methodCallParams(method, args, output, mApiKey)]]
    /\ UNCHANGED <<mHost, mApiKey, forms>>

\* ------------------------------------------------------------ input sets
RECURSIVE SeqsUpTo(_, _)
SeqsUpTo(S, n) ==
    IF n = 0 THEN {<<>>}
    ELSE SeqsUpTo(S, n - 1) \cup
         {Append(q, x) : q \in {r \in SeqsUpTo(S, n - 1) : Len(r) = n - 1}, x \in S}

Ids       == {Str("SABnzbd_nzo_a"), Str("SABnzbd_nzo_b")}
IdLists   == {Arr(q) : q \in SeqsUpTo(Ids, MaxIds)}
OptIds    == {Undefined} \cup IdLists
OptCount  == {Undefined, Num(0), Num(5)}
OptSearch == {Undefined, Str(""), Str("linux")}
OptName   == {Undefined, Str(""), Str("job")}
OptPass   == {Undefined, Str("secret")}
OptCat    == {Undefined, Str("tv")}
OptScript == {Undefined, Str("done.py")}
OptFlag   == {Undefined, Bool(FALSE), Bool(TRUE)}
\* Priority.Low, Priority.Normal, Priority.Force; PostProcessing.None, .Repair
OptPriority == {Undefined, Num(-1), Num(0), Num(2)}
OptPP       == {Undefined, Num(0), Num(1)}
Priorities  == {Num(-100), Num(0), Num(1)}
SortOptions == {Str("avg_age"), Str("name"), Str("size")}
Urls        == {Str("http://nzb.example/a.nzb")}
Paths       == {Str("/nzb/a.nzb")}
Texts       == {Str("Paused")}
Sections    == {Undefined, Str(""), Str("misc")}
Keywords    == {Undefined, Str("bandwidth_max")}
KeywordArgs == Ids \cup {Arr(q) : q \in SeqsUpTo({Str("bandwidth_max"), Str("api_key")}, MaxIds)}

\* The objects a caller hands to setConfig(args: any).
ConfigArgs ==
    {NoArgs,
     ObjArgs(<<>>),
     ObjArgs(<< <<"section", Str("misc")>>, <<"keyword", Str("bandwidth_max")>>,
                <<"value", Str("10M")>> >>),
     ObjArgs(<< <<"section", Str("misc")>>, <<"keyword", Str("bandwidth_max")>>,
                <<"value", Undefined>> >>),
     ObjArgs(<< <<"section", Str("misc")>>, <<"mode", Str("x")>>,
                <<"value", Num(0)>> >>)}

\* The arguments of a direct call of methodCall.
GenericArgs ==
    ConfigArgs \cup
    {USPArgs(<<>>),
     USPArgs(<< <<"name", "sort">>, <<"dir", "desc">>, <<"sort", "size">> >>),
     USPArgs(<< <<"keyword", "a">>, <<"keyword", "b">> >>),
     USPArgs(<< <<"search", "">> >>)}
Methods == {"queue", "version"}
Outputs == {"json", "text"}

\* ---------------------------------------------------- building arguments
\* Every append made without its test.
AppendEach_untested(p, kvs) ==
    p \o [i \in 1..Len(kvs) |-> <<kvs[i][1], JSString(kvs[i][3])>>]

\* A run of `if( test ) searchParams.append(key, value)` statements, each
\* given as <<key, test, value>>.
RECURSIVE AppendEachIf(_, _)
AppendEachIf(p, kvs) ==
    IF Len(kvs) = 0 THEN p
    ELSE AppendEachIf(
            IF Truthy(Head(kvs)[2])
            THEN AppendParam(p, Head(kvs)[1], Head(kvs)[3]) ELSE p,
            Tail(kvs))

\* name, password, cat, script, priority, postProcess of addUrl, addPath and
\* addFile, in the order the code tests them.
JobOptions(name, password, cat, script, priority, postProcess) ==
    << <<"nzbname", name, name>>, <<"password", password, password>>,
       <<"cat", cat, cat>>, <<"script", script, script>>,
       <<"priority", priority, priority>>, <<"pp", postProcess, postProcess>> >>

JobOpt(name, password, cat, script, priority, postProcess) ==
    [nzbname |-> name, password |-> password, cat |-> cat, script |-> script,
     priority |-> priority, pp |-> postProcess]

\* The parameters of a call that are optional or list-valued, as a record
\* keyed by the field each is sent under.
NoOpt == [k \in {} |-> Undefined]

\* failedOnly ? '1' : '0' under if( failedOnly )
FlagValue(b) == IF Truthy(b) THEN Str("1") ELSE Str("0")


\* ------------------------------------------- operations through methodCall
queue(c) ==
    /\ CallerIdle
    /\ \E impl \in Impls("queue"), start \in OptCount, limit \in OptCount,
          search \in OptSearch, nzoIds \in OptIds :
           Dispatch(c, impl, "queue",
                    [start |-> start, limit |-> limit, search |-> search, nzo_ids |-> nzoIds],
                    "queue",
                    USPArgs(AppendEachIf(<<>>,
                       << <<"start", start, start>>, <<"limit", limit, limit>>,
                          <<"search", search, search>>, <<"nzo_ids", nzoIds, nzoIds>> >>)),
                    "json")

queuePause(c) ==
    /\ CallerIdle
    /\ \E impl \in Impls("queuePause") :
           Dispatch(c, impl, "queuePause", NoOpt, "pause", NoArgs, "json")

queueResume(c) ==
    /\ CallerIdle
    /\ \E impl \in Impls("queueResume") :
           Dispatch(c, impl, "queueResume", NoOpt, "resume", NoArgs, "json")

\* queueSort with the direction inverted.
queueSort_inverted(c) ==
    /\ CallerIdle
    /\ \E impl \in Impls("queueSort"), sortBy \in SortOptions,
          ascending \in BOOLEAN :
           Dispatch(c, impl, "queueSort",
                    [sortBy |-> sortBy, ascending |-> ascending],
                    "queue",
                    ObjArgs(<< <<"name", Str("sort")>>,
                               <<"dir", IF ascending THEN Str("desc") ELSE Str("asc")>>,
                               <<"sort", sortBy>> >>),
                    "json")

queueSort(c) ==
    /\ CallerIdle
    /\ \E impl \in Impls("queueSort"), sortBy \in SortOptions,
          ascending \in BOOLEAN :
           Dispatch(c, impl, "queueSort",
                    [sortBy |-> sortBy, ascending |-> ascending],
                    "queue",
                    ObjArgs(<< <<"name", Str("sort")>>,
                               <<"dir", IF ascending THEN Str("asc") ELSE Str("desc")>>,
                               <<"sort", sortBy>> >>),
                    "json")

queuePurge(c) ==
    /\ CallerIdle
    /\ \E impl \in Impls("queuePurge"), search \in OptSearch :
           Dispatch(c, impl, "queuePurge", [search |-> search], "queue",
                    USPArgs(AppendEachIf(<< <<"name", "purge">>, <<"del_files", "1">> >>,
                                         << <<"search", search, search>> >>)),
                    "json")

addUrl(c) ==
    /\ CallerIdle
    /\ \E impl \in Impls("addUrl"), url \in Urls, name \in OptName,
          password \in OptPass, cat \in OptCat, script \in OptScript,
          priority \in OptPriority, postProcess \in OptPP :
           Dispatch(c, impl, "addUrl",
                    JobOpt(name, password, cat, script, priority, postProcess),
                    "addurl",
                    USPArgs(AppendEachIf(AppendParam(<<>>, "name", url),
                               JobOptions(name, password, cat, script, priority, postProcess))),
                    "json")

addPath(c) ==
    /\ CallerIdle
    /\ \E impl \in Impls("addPath"), filePath \in Paths, name \in OptName,
          password \in OptPass, cat \in OptCat, script \in OptScript,
          priority \in OptPriority, postProcess \in OptPP :
           Dispatch(c, impl, "addPath",
                    JobOpt(name, password, cat, script, priority, postProcess),
                    "addlocalfile",
                    USPArgs(AppendEachIf(AppendParam(<<>>, "name", filePath),
                               JobOptions(name, password, cat, script, priority, postProcess))),
                    "json")

jobPause(c) ==
    /\ CallerIdle
    /\ \E impl \in Impls("jobPause"), id \in Ids :
           Dispatch(c, impl, "jobPause", NoOpt, "queue",
                    ObjArgs(<< <<"name", Str("pause")>>, <<"value", id>> >>), "json")

jobResume(c) ==
    /\ CallerIdle
    /\ \E impl \in Impls("jobResume"), id \in Ids :
           Dispatch(c, impl, "jobResume", NoOpt, "queue",
                    ObjArgs(<< <<"name", Str("resume")>>, <<"value", id>> >>), "json")

\* id.join(",") when id is an array, id itself otherwise.
jobDelete(c) ==
    /\ CallerIdle
    /\ \E impl \in Impls("jobDelete"), id \in Ids \cup IdLists :
           Dispatch(c, impl, "jobDelete", [value |-> id], "queue",
                    ObjArgs(<< <<"name", Str("delete")>>, <<"value", Str(JSString(id))>> >>),
                    "json")

jobChangeName(c) ==
    /\ CallerIdle
    /\ \E impl \in Impls("jobChangeName"), id \in Ids, newName \in {Str("job")},
          password \in OptPass \cup {Str("")} :
           Dispatch(c, impl, "jobChangeName", [value3 |-> password], "queue",
                    USPArgs(AppendEachIf(
                       AppendParam(AppendParam(<< <<"name", "rename">> >>, "value", id),
                                   "value2", newName),
                       << <<"value3", password, password>> >>)),
                    "json")

changePriority(c) ==
    /\ CallerIdle
    /\ \E impl \in Impls("changePriority"), id \in Ids, priority \in Priorities :
           Dispatch(c, impl, "changePriority", NoOpt, "queue",
                    ObjArgs(<< <<"name", priority>>, <<"value", id>>, <<"value2", priority>> >>),
                    "json")

getFiles(c) ==
    /\ CallerIdle
    /\ \E impl \in Impls("getFiles"), id \in Ids :
           Dispatch(c, impl, "getFiles", NoOpt, "get_files",
                    ObjArgs(<< <<"value", id>> >>), "json")

history(c) ==
    /\ CallerIdle
    /\ \E impl \in Impls("history"), start \in OptCount, limit \in OptCount,
          category \in OptCat, search \in OptSearch, nzoIds \in OptIds,
          failedOnly \in OptFlag, lastHistoryUpdate \in OptFlag :
           Dispatch(c, impl, "history",
                    [start |-> start, limit |-> limit, category |-> category,
                     search |-> search, nzo_ids |-> nzoIds, failed_only |-> failedOnly,
                     last_history_update |-> lastHistoryUpdate],
                    "history",
                    USPArgs(AppendEachIf(<<>>,
                       << <<"start", start, start>>, <<"limit", limit, limit>>,
                          <<"category", category, category>>, <<"search", search, search>>,
                          <<"nzo_ids", nzoIds, nzoIds>>,
                          <<"failed_only", failedOnly, FlagValue(failedOnly)>>,
                          <<"last_history_update", lastHistoryUpdate,
                            FlagValue(lastHistoryUpdate)>> >>)),
                    "json")

historyRetry(c) ==
    /\ CallerIdle
    /\ \E impl \in Impls("historyRetry"), id \in Ids,
          password \in OptPass \cup {Str("")} :
           Dispatch(c, impl, "historyRetry", [password |-> password], "retry",
                    USPArgs(AppendEachIf(AppendParam(<<>>, "value", id),
                                         << <<"password", password, password>> >>)),
                    "json")

\* ids = id.join(',') when id is an array.
historyDelete(c) ==
    /\ CallerIdle
    /\ \E impl \in Impls("historyDelete"), id \in Ids \cup IdLists :
           Dispatch(c, impl, "historyDelete", [value |-> id], "history",
                    ObjArgs(<< <<"name", Str("delete")>>, <<"value", Str(JSString(id))>> >>),
                    "json")

version(c) ==
    /\ CallerIdle
    /\ \E impl \in Impls("version") :
           Dispatch(c, impl, "version", NoOpt, "version", NoArgs, "json")

auth(c) ==
    /\ CallerIdle
    /\ \E impl \in Impls("auth") :
           Dispatch(c, impl, "auth", NoOpt, "auth", NoArgs, "json")

warnings(c) ==
    /\ CallerIdle
    /\ \E impl \in Impls("warnings") :
           Dispatch(c, impl, "warnings", NoOpt, "warnings", NoArgs, "json")

getCats(c) ==
    /\ CallerIdle
    /\ \E impl \in Impls("getCats") :
           Dispatch(c, impl, "getCats", NoOpt, "get_cats", NoArgs, "json")

getScripts(c) ==
    /\ CallerIdle
    /\ \E impl \in Impls("getScripts") :
           Dispatch(c, impl, "getScripts", NoOpt, "get_scripts", NoArgs, "json")

serverStats(c) ==
    /\ CallerIdle
    /\ \E impl \in Impls("serverStats") :
           Dispatch(c, impl, "serverStats", NoOpt, "server_stats", NoArgs, "json")

\* options.section / options.keyword are set only under if( section ) ...
getConfig(c) ==
    /\ CallerIdle
    /\ \E impl \in Impls("getConfig"), section \in Sections, keyword \in Keywords :
           Dispatch(c, impl, "getConfig", [section |-> section, keyword |-> keyword],
                    "get_config",
                    ObjArgs((IF Truthy(section) THEN << <<"section", section>> >> ELSE <<>>) \o
                            (IF Truthy(keyword) THEN << <<"keyword", keyword>> >> ELSE <<>>)),
                    "json")

setConfig(c) ==
    /\ CallerIdle
    /\ \E impl \in Impls("setConfig"), args \in ConfigArgs :
           Dispatch(c, impl, "setConfig", NoOpt, "set_config", args, "json")

\* One append("keyword", value) per element when keyword is an array.
setConfigDefault(c) ==
    /\ CallerIdle
    /\ \E impl \in Impls("setConfigDefault"), keyword \in KeywordArgs :
           Dispatch(c, impl, "setConfigDefault", [keyword |-> keyword],
                    "set_config_default",
                    IF keyword.t = "array"
                    THEN USPArgs([i \in 1..Len(keyword.a) |-> <<"keyword", JSString(keyword.a[i])>>])
                    ELSE ObjArgs(<< <<"keyword", keyword>> >>),
                    "json")

translateText(c) ==
    /\ CallerIdle
    /\ \E impl \in Impls("translateText"), text \in Texts :
           Dispatch(c, impl, "translateText", NoOpt, "translate",
                    ObjArgs(<< <<"value", text>> >>), "json")

status(c) ==
    /\ CallerIdle
    /\ \E impl \in Impls("status"), skipDashboard \in BOOLEAN,
          calculatePerformance \in BOOLEAN :
           Dispatch(c, impl, "status", NoOpt, "status",
                    ObjArgs(<< <<"skip_dashboard", Bool(skipDashboard)>>,
                               <<"calculate_performance", Bool(calculatePerformance)>> >>),
                    "json")

\* A call of methodCall itself, with any method, arguments and output.
methodCall(c) ==
    /\ CallerIdle
    /\ \E impl \in Impls("methodCall"), method \in Methods, args \in GenericArgs,
          output \in Outputs :
           Dispatch(c, impl, "methodCall", NoOpt, method, args, output)

\* ------------------------------------------------- multipart operations
\* The caller's code before addFile: new FormData() and the append of the
\* file under the payload field (examples/addFileFormData.js, README).
PayloadKeys == {"nzbfile", "name"}
FileStream  == "<file stream>"

newFormData(f, payloadKey) ==
    /\ CallerIdle
    /\ forms[f] = EmptyForm
    /\ forms' = [forms EXCEPT ![f] = << <<payloadKey, FileStream>> >>]
    /\ UNCHANGED <<mHost, mApiKey, calls, wire>>

\* The form posted without the apikey field.
Post_withoutKey(c, impl, op, opt, f, fields) ==
    LET sent == SelectSeq(fields, LAMBDA kv : kv[1] # "apikey") IN
    /\ forms[f] # EmptyForm
    /\ forms' = [forms EXCEPT ![f] = forms[f] \o sent]
    /\ calls' = [calls EXCEPT ![c] = NewCall(impl, op, "json")]
    /\ wire' = [wire EXCEPT ![c] =
                  [transport |-> "multipart", op |-> op, url |-> ApiUrl(mHost),
                   form |-> f, given |-> forms[f], opt |-> opt,
                   body |-> forms[f] \o sent]]
    /\ UNCHANGED <<mHost, mApiKey>>

\* got.post(`${this.mHost}/api`, {body: formData}) after `fields` were
\* appended to the caller's form.
Post(c, impl, op, opt, f, fields) ==
    /\ forms[f] # EmptyForm
    /\ forms' = [forms EXCEPT ![f] = forms[f] \o fields]
    /\ calls' = [calls EXCEPT ![c] = NewCall(impl, op, "json")]
    /\ wire' = [wire EXCEPT ![c] =
                  [transport |-> "multipart", op |-> op, url |-> ApiUrl(mHost),
                   form |-> f, given |-> forms[f], opt |-> opt,
                   body |-> forms[f] \o fields]]
    /\ UNCHANGED <<mHost, mApiKey>>

addFile(c) ==
    /\ CallerIdle
    /\ \E impl \in Impls("addFile"), f \in FormIds, name \in OptName,
          password \in OptPass, cat \in OptCat, script \in OptScript,
          priority \in OptPriority, postProcess \in OptPP :
           Post(c, impl, "addFile",
                JobOpt(name, password, cat, script, priority, postProcess), f,
                AppendEachIf(<< <<"mode", "addfile">>, <<"output", "json">>,
                                <<"apikey", mApiKey>> >>,
                             JobOptions(name, password, cat, script, priority, postProcess)))

\* formData.append("nzbfile", formData): the form is appended to itself.
FormItself == "<formData>"

historyRetryWithNZB(c) ==
    /\ CallerIdle
    /\ \E impl \in Impls("historyRetryWithNZB"), id \in Ids, f \in FormIds,
          password \in OptPass \cup {Str("")} :
           Post(c, impl, "historyRetryWithNZB", [password |-> password], f,
                AppendEachIf(
                   AppendParam(<< <<"mode", "retry">>, <<"output", "json">>,
                                  <<"apikey", mApiKey>> >>, "value", id)
                     \o << <<"nzbfile", FormItself>> >>,
                   << <<"password", password, password>> >>))

\* ------------------------------------------------------------ responses
Warning(text, type, time) == Obj([text |-> text, type |-> type, time |-> time])
GoodWarning == Warning(Str("disk full"), Str("WARNING"), Num(1600000000))
BadWarning  == Warning(Str("disk full"), Str("ERROR"), Num(1600000000))

EmptyObject == Obj([k \in {} |-> Undefined])

DayCounts(a, b) == Obj([d \in {"2021-01-01", "2021-01-02"} |->
                          IF d = "2021-01-01" THEN Num(a) ELSE Num(b)])

\* A server_stats response with two servers: one with all three date-keyed
\* objects, one without daily and with a date in articles_success that
\* articles_tried does not have.
StatsBody ==
    Obj([day |-> Num(1), week |-> Num(2), month |-> Num(3), total |-> Num(4),
         servers |-> Obj([n \in {"news.example", "backup.example"} |->
            IF n = "news.example"
            THEN Obj([day |-> Num(1), week |-> Num(2), month |-> Num(3),
                      total |-> Num(4),
                      daily |-> DayCounts(10, 20),
                      articles_tried |-> DayCounts(7, 9),
                      articles_success |-> DayCounts(6, 8)])
            ELSE Obj([day |-> Num(0), week |-> Num(1), month |-> Num(1),
                      total |-> Num(2),
                      articles_tried |-> Obj([d \in {"2021-01-01"} |-> Num(3)]),
                      articles_success |-> DayCounts(2, 1)])])])

\* The bodies the server answers with.
Bodies ==
    {BadBody("<html>"),
     JsonBody("null", Null),
     JsonBody("{}", EmptyObject),
     JsonBody("status", Obj([status |-> Bool(TRUE)])),
     JsonBody("version", Obj([version |-> Str("3.1.1")])),
     JsonBody("version empty", Obj([version |-> Str("")])),
     JsonBody("auth", Obj([auth |-> Arr(<<Str("apikey")>>)])),
     JsonBody("categories", Obj([categories |-> Arr(<<Str("*"), Str("tv")>>)])),
     JsonBody("scripts", Obj([scripts |-> Arr(<<>>)])),
     JsonBody("queue", Obj([queue |-> Obj([noofslots |-> Num(0)])])),
     JsonBody("history", Obj([history |-> Obj([noofslots |-> Num(0)])])),
     JsonBody("files", Obj([files |-> Arr(<<>>)])),
     JsonBody("value", Obj([value |-> Str("Pausado")])),
     JsonBody("error", Obj([status |-> Bool(FALSE), error |-> Str("no such text")])),
     JsonBody("[]", Arr(<<>>)),
     JsonBody("warnings", Arr(<<GoodWarning,
                                Warning(Str("low memory"), Str("WARNING"),
                                        Num(1600000001))>>)),
     JsonBody("warnings bad first", Arr(<<BadWarning, GoodWarning>>)),
     JsonBody("warnings null", Arr(<<GoodWarning, Null>>)),
     JsonBody("stats", StatsBody)}

StatusCodes == {200, 204, 404, 500}

\* The status and body of an answer: any body with 200, and with the other
\* codes a page or an empty object.
Answers ==
    {<<200, b>> : b \in Bodies} \cup
    {<<st, b>> : st \in StatusCodes \ {200},
                 b \in {BadBody("<html>"), JsonBody("{}", EmptyObject)}}

\* What got rejects with when no response arrives, and a rejection with a
\* value that is no Error (the else branch of the catch callbacks).
Failures == {Err("RequestError", <<"connect ECONNREFUSED">>), NonError("aborted")}

\* A failed request is handed to got again, up to three times in all.
gotSettles_retry(c, outcome) ==
    /\ calls[c].pc = "sent"
    /\ IF outcome.kind = "error" /\ calls[c].requests < 3
       THEN /\ calls' = [calls EXCEPT ![c].requests = @ + 1]
            /\ UNCHANGED <<wire, forms>>
       ELSE /\ calls' = [calls EXCEPT ![c].got = outcome, ![c].pc = "answered"]
            /\ wire' = [wire EXCEPT ![c] = NoRequest]
            /\ forms' = IF wire[c].transport = "multipart"
                        THEN [forms EXCEPT ![wire[c].form] = EmptyForm] ELSE forms
    /\ UNCHANGED <<mHost, mApiKey>>

\* An answer is delivered to every call that waits for one.
gotSettles_shared(c, outcome) ==
    /\ calls[c].pc = "sent"
    /\ calls' = [d \in CallIds |->
                   IF calls[d].pc = "sent"
                   THEN [calls[d] EXCEPT !.got = outcome, !.pc = "answered"]
                   ELSE calls[d]]
    /\ wire' = [d \in CallIds |-> NoRequest]
    /\ forms' = [f \in DOMAIN forms |-> EmptyForm]
    /\ UNCHANGED <<mHost, mApiKey>>

\* The promise of got settles: with the response, or with an error.  The
\* caller builds a form for one request (examples/addFileFormData.js) and
\* drops it once the request is answered.
gotSettles(c, outcome) ==
    /\ calls[c].pc = "sent"
    /\ calls' = [calls EXCEPT ![c].got = outcome, ![c].pc = "answered"]
    /\ wire' = [wire EXCEPT ![c] = NoRequest]
    /\ forms' = IF wire[c].transport = "multipart"
                THEN [forms EXCEPT ![wire[c].form] = EmptyForm] ELSE forms
    /\ UNCHANGED <<mHost, mApiKey>>

\* The server answers with a status and a body.
gotResponds(c, st, body) ==
    /\ st \in StatusCodes
    /\ gotSettles(c, GotOutcome(st, body))

\* No answer arrives: got rejects its promise.
gotFails(c, cause) ==
    /\ cause \in Failures
    /\ gotSettles(c, GotError(cause))

\* The resolve/reject calls `run` made, applied to the promise they belong to.
Apply(k, run, pc) ==
    LET chain == SettleAll(k.chain, run.effects) IN
    [k EXCEPT !.pc = pc, !.thrown = run.thrown, !.chain = chain,
              !.outer = IF k.op \in DirectOps THEN chain ELSE k.outer,
              !.settles = IF k.op \in DirectOps THEN k.settles \o run.effects
                          ELSE k.settles]

thenRun(k) ==
    IF k.op \in MultipartOps
    THEN IF k.impl = "Types.ts" THEN multipartThen(k.got) ELSE multipartThenNoTry(k.got)
    ELSE methodCallThen(k.output, k.got)

\* .then(response => ...) runs when got fulfilled its promise.
thenCallback(c) ==
    /\ calls[c].pc = "answered"
    /\ calls[c].got.kind = "response"
    /\ calls' = [calls EXCEPT ![c] = Apply(calls[c], thenRun(calls[c]), "chained")]
    /\ UNCHANGED <<mHost, mApiKey, wire, forms>>

\* .catch(error => ...) runs when got rejected, or when the then callback
\* threw.
catchCallback(c) ==
    /\ \/ calls[c].pc = "answered" /\ calls[c].got.kind = "error"
       \/ calls[c].pc = "chained" /\ calls[c].thrown # Nothing
    /\ LET cause == IF calls[c].pc = "answered" THEN calls[c].got.error
                    ELSE calls[c].thrown
       IN  calls' = [calls EXCEPT ![c] = Apply(calls[c], catchHandler(cause), "caught")]
    /\ UNCHANGED <<mHost, mApiKey, wire, forms>>

\* The operation continues after `await this.methodCall(...)`.
resume(c) ==
    /\ calls[c].pc \in {"chained", "caught"}
    /\ calls[c].thrown = Nothing
    /\ calls[c].op \notin DirectOps
    /\ calls[c].chain.state # "pending"
    /\ LET k == calls[c]
           effects == continuation(k.impl, k.op, k.chain)
       IN  calls' = [calls EXCEPT ![c] =
                       [k EXCEPT !.pc = "resumed",
                                 !.outer = SettleAll(k.outer, effects),
                                 !.settles = k.settles \o effects]]
    /\ UNCHANGED <<mHost, mApiKey, wire, forms>>

\* No callback of the call is left to run.
Quiescent(c) ==
    \/ calls[c].pc = "resumed"
    \/ /\ calls[c].pc \in {"chained", "caught"}
       /\ calls[c].thrown = Nothing
       /\ calls[c].op \in DirectOps \/ calls[c].chain.state = "pending"

\* The caller is done with the promise.
Release(c) ==
    /\ Quiescent(c)
    /\ calls' = [calls EXCEPT ![c] = IdleCall]
    /\ UNCHANGED <<mHost, mApiKey, wire, forms>>

\* ------------------------------------------------------------------ Next
Next ==
    \/ \E c \in CallIds :
        \/ queue(c)
        \/ queuePause(c)
        \/ queueResume(c)
        \/ queueSort(c)
        \/ queuePurge(c)
        \/ addUrl(c)
        \/ addPath(c)
        \/ addFile(c)
        \/ jobPause(c)
        \/ jobResume(c)
        \/ jobDelete(c)
        \/ jobChangeName(c)
        \/ changePriority(c)
        \/ getFiles(c)
        \/ history(c)
        \/ historyRetry(c)
        \/ historyRetryWithNZB(c)
        \/ historyDelete(c)
        \/ version(c)
        \/ auth(c)
        \/ warnings(c)
        \/ getCats(c)
        \/ getScripts(c)
        \/ serverStats(c)
        \/ getConfig(c)
        \/ setConfig(c)
        \/ setConfigDefault(c)
        \/ translateText(c)
        \/ status(c)
        \/ methodCall(c)
    \/ \E f \in FormIds, payloadKey \in PayloadKeys : newFormData(f, payloadKey)
    \/ \E c \in CallIds :
        \/ \E a \in Answers : gotResponds(c, a[1], a[2])
        \/ \E cause \in Failures : gotFails(c, cause)
        \/ thenCallback(c)
        \/ catchCallback(c)
        \/ resume(c)
        \/ Release(c)

Spec == Init /\ [][Next]_vars

\* ================================================================ claims
\* The fields a request carries: the search parameters of a query-string
\* request, the fields of the form of a multipart one.
Fields(req) == IF req.transport = "query" THEN req.params ELSE req.body

\* The caller's arguments of a methodCall as <<key, string>> pairs, in the
\* caller's order.
ArgPairs(args) ==
    CASE args.kind = "none" -> <<>>
      [] args.kind = "usp"  -> args.p
      [] args.kind = "obj"  -> [i \in 1..Len(args.o) |->
                                  <<args.o[i][1], JSString(args.o[i][2])>>]

C2_QueueSortRequest ==
    \A c \in CallIds :
        (wire[c].transport # "none" /\ wire[c].op = "queueSort") =>
            /\ wire[c].transport = "query"
            /\ wire[c].params =
                 << <<"name", "sort">>,
                    <<"dir", IF wire[c].opt.ascending THEN "asc" ELSE "desc">>,
                    <<"sort", wire[c].opt.sortBy.s>>,
                    <<"mode", "queue">>, <<"output", "json">>,
                    <<"apikey", mApiKey>> >>

C2_Witness ==
    \E c \in CallIds :
        /\ wire[c].transport = "query"
        /\ wire[c].op = "queueSort"
        /\ wire[c].opt.sortBy = Str("size")
        /\ ~wire[c].opt.ascending
        /\ wire[c].params =
             << <<"name", "sort">>, <<"dir", "desc">>, <<"sort", "size">>,
                <<"mode", "queue">>, <<"output", "json">>, <<"apikey", mApiKey>> >>

\* The transport outcome of a call is a failure or a response whose status
\* is not 200.
NotOk(k) ==
    \/ k.got.kind = "error"
    \/ k.got.kind = "response" /\ k.got.statusCode # 200

\* C3: once the callbacks of a call have run, a transport failure or a
\* response with a status other than 200 has rejected the promise of
\* methodCall, addFile or historyRetryWithNZB with a Transport Error.
C3_NotOkIsTransportError ==
    \A c \in CallIds :
        (Quiescent(c) /\ NotOk(calls[c])) =>
            /\ calls[c].chain.state = "rejected"
            /\ IsTransportError(calls[c].chain.error)

\* A 200 response whose body does not parse as JSON.
Unparseable(k) ==
    /\ k.got.kind = "response"
    /\ k.got.statusCode = 200
    /\ ~k.got.body.parses

\* C4: once the callbacks of a methodCall with output json have run, a 200
\* response whose body does not parse has rejected its promise with the
\* Decode Error, never with a Transport Error.
C4_UnparseableIsDecodeError ==
    \A c \in CallIds :
        (/\ Quiescent(c)
         /\ calls[c].op \notin MultipartOps
         /\ calls[c].output = "json"
         /\ Unparseable(calls[c])) =>
            /\ calls[c].chain = Rejected(DecodeError)
            /\ ~IsTransportError(calls[c].chain.error)

\* C5: when no callback of a public operation is left to run, its promise
\* is resolved or rejected.
C5_EveryOperationSettles ==
    \A c \in CallIds :
        (Quiescent(c) /\ calls[c].op # "methodCall") =>
            calls[c].outer.state # "pending"

\* The field each projecting operation requires of the decoded response.
RequiredOf(op) ==
    CASE op = "queue"       -> "queue"
      [] op = "history"     -> "history"
      [] op = "getFiles"    -> "files"
      [] op = "status"      -> "status"
      [] op = "version"     -> "version"
      [] op = "auth"        -> "auth"
      [] op = "getCats"     -> "categories"
      [] op = "getScripts"  -> "scripts"
      [] op = "serverStats" -> "servers"

ProjectingOps ==
    {"queue", "history", "getFiles", "status", "version", "auth", "getCats",
     "getScripts", "serverStats"}

\* A 200 response that parsed to a JSON object.
DecodedObject(k) ==
    /\ k.got.kind = "response"
    /\ k.got.statusCode = 200
    /\ k.got.body.parses
    /\ k.got.body.value.t = "object"

\* The decoded response lacks what the operation projects: the required
\* field, or for warnings the array of records.
LacksRequired(k) ==
    /\ k.got.kind = "response"
    /\ k.got.statusCode = 200
    /\ k.got.body.parses
    /\ IF k.op = "warnings" THEN k.got.body.value.t = "object"
       ELSE /\ k.op \in ProjectingOps
            /\ k.got.body.value.t = "object"
            /\ RequiredOf(k.op) \notin DOMAIN k.got.body.value.o

\* C6: a projecting operation whose 200 JSON response lacks the required
\* field ends rejected with the Protocol Error.
C6_MissingFieldIsProtocolError ==
    \A c \in CallIds :
        (Quiescent(c) /\ LacksRequired(calls[c])) =>
            calls[c].outer = Rejected(ProtocolError)

\* version, auth, getCats, getScripts.
RequiringOps == {"version", "auth", "getCats", "getScripts"}

\* A non-empty string, or a list.
NonEmptyValue(v) == (v.t = "string" /\ v.s # "") \/ v.t = "array"

\* C7: version, auth, getCats and getScripts, answered 200 with an object
\* that holds the required field with a non-empty string or a list, resolve
\* to exactly that value; answered 200 with {} they reject with the Protocol
\* Error.
C7_RequiredFieldOrProtocolError ==
    \A c \in CallIds :
        (/\ calls[c].pc = "resumed"
         /\ calls[c].op \in RequiringOps
         /\ DecodedObject(calls[c])) =>
            LET r == calls[c].got.body.value
                f == RequiredOf(calls[c].op)
            IN  /\ (f \in DOMAIN r.o /\ NonEmptyValue(r.o[f])) =>
                       calls[c].outer = Resolved(r.o[f])
                /\ DOMAIN r.o = {} => calls[c].outer = Rejected(ProtocolError)

C7_Witness ==
    /\ \E c \in CallIds :
        /\ calls[c].pc = "resumed"
        /\ calls[c].op = "version"
        /\ DecodedObject(calls[c])
        /\ calls[c].got.body.value = Obj([version |-> Str("3.1.1")])
        /\ calls[c].outer = Resolved(Str("3.1.1"))

C7_WitnessEmpty ==
    \E c \in CallIds :
        /\ calls[c].pc = "resumed"
        /\ calls[c].op = "getCats"
        /\ DecodedObject(calls[c])
        /\ DOMAIN calls[c].got.body.value.o = {}
        /\ calls[c].outer = Rejected(ProtocolError)

\* The operations with optional parameters.
OptionalOps ==
    {"queue", "history", "queuePurge", "addUrl", "addPath", "addFile",
     "jobChangeName", "historyRetry", "getConfig"}

\* The fields the operation itself put into the request: all of a query
\* string, and of a form those after the fields the caller handed in.
Encoded(req) ==
    IF req.transport = "query" THEN req.params
    ELSE SubSeq(req.body, Len(req.given) + 1, Len(req.body))

\* C8: no optional parameter the caller left undefined appears as a key
\* among the fields the operation encodes.
C8_OmittedNeverEncoded ==
    \A c \in CallIds :
        (wire[c].transport # "none" /\ wire[c].op \in OptionalOps) =>
            \A k \in DOMAIN wire[c].opt :
                wire[c].opt[k] = Undefined => k \notin Keys(Encoded(wire[c]))

C8_Witness ==
    \E c \in CallIds :
        /\ wire[c].transport = "multipart"
        /\ wire[c].op = "addFile"
        /\ wire[c].opt.nzbname = Undefined
        /\ wire[c].opt.password = Str("secret")
        /\ wire[c].opt.priority = Undefined
        /\ Keys(Encoded(wire[c])) = {"mode", "output", "apikey", "password"}

\* The caller supplied a defined, non-empty value.
Supplied(v) == v # Undefined /\ v # Str("")

\* C9: every optional parameter of queue, history, addUrl, addPath and
\* addFile that the caller supplied with a defined, non-empty value appears
\* exactly once in the request, the number 0 included.
C9_SuppliedEncodedOnce ==
    \A c \in CallIds :
        (/\ wire[c].transport # "none"
         /\ wire[c].op \in {"queue", "history", "addUrl", "addPath", "addFile"}) =>
            \A k \in DOMAIN wire[c].opt :
                Supplied(wire[c].opt[k]) => Count(Encoded(wire[c]), k) = 1

\* C10: no request of methodCall carries a caller argument whose value is
\* the empty string or the text "undefined".
C10_NoEmptyOrUndefinedValue ==
    \A c \in CallIds :
        wire[c].transport = "query" =>
            \A i \in 1..(Len(wire[c].params) - 3) :
                wire[c].params[i][2] \notin {"", "undefined"}

\* The key a list-valued argument of the operation is sent under.
ListKey(op) ==
    CASE op \in {"queue", "history"}             -> "nzo_ids"
      [] op \in {"jobDelete", "historyDelete"}   -> "value"
      [] op = "setConfigDefault"                 -> "keyword"

ListOps == {"queue", "history", "jobDelete", "historyDelete", "setConfigDefault"}

\* The request of a list operation that was given a list of n >= 1 elements.
SentList(req) ==
    /\ req.transport = "query"
    /\ req.op \in ListOps
    /\ req.opt[ListKey(req.op)].t = "array"
    /\ Len(req.opt[ListKey(req.op)].a) >= 1

\* C11: a list of n >= 1 identifiers or keywords given to queue, history,
\* jobDelete, historyDelete or setConfigDefault is sent as one field, the
\* elements joined by commas: its key occurs exactly once in the request.
C11_ListIsOneJoinedField ==
    \A c \in CallIds :
        SentList(wire[c]) =>
            LET k == ListKey(wire[c].op) IN
            /\ Count(wire[c].params, k) = 1
            /\ <<k, Join(wire[c].opt[k].a, ",")>> \in
                   {wire[c].params[i] : i \in 1..Len(wire[c].params)}

DispatchRejected(k) ==
    /\ k.pc = "resumed"
    /\ k.chain.state = "rejected"

\* C13: when methodCall rejects, the promise of the operation that awaited
\* it is rejected with the same error.
C13_RejectionReachesCaller ==
    \A c \in CallIds :
        DispatchRejected(calls[c]) => calls[c].outer = Rejected(calls[c].chain.error)

CarriesConfiguration(req) ==
    /\ req.url = mHost \o "/api"
    /\ <<"apikey", mApiKey>> \in {Encoded(req)[i] : i \in 1..Len(Encoded(req))}

\* C15: no operation and no transport outcome changes mHost or mApiKey, and
\* every request is addressed to that host and carries that key.
C15_ConfigurationIsFixed ==
    /\ [](\A c \in CallIds : wire[c] # NoRequest => CarriesConfiguration(wire[c]))
    /\ [][mHost' = mHost /\ mApiKey' = mApiKey]_vars

\* A request of a client constructed with the second key, whose caller gave
\* no apikey argument of their own.
C15_Witness ==
    /\ mApiKey = "key2"
    /\ \E c \in CallIds :
        /\ wire[c].transport = "query"
        /\ wire[c].op = "setConfig"
        /\ "apikey" \notin Keys(ArgPairs(wire[c].args))
        /\ Count(wire[c].params, "apikey") = 1
        /\ CarriesConfiguration(wire[c])

\* ===================================================== concurrent calls
\* The caller starts operations without awaiting the earlier ones: several
\* calls of one client are in flight and their answers arrive in any order.
\* Each multipart call is given a form of its own.
FormIdsConcurrent == {"formData", "formData2"}

InitConcurrent ==
    /\ mHost \in Hosts
    /\ mApiKey \in ApiKeys
    /\ calls = [c \in CallIds |-> IdleCall]
    /\ wire = [c \in CallIds |-> NoRequest]
    /\ forms = [f \in FormIdsConcurrent |-> EmptyForm]

\* The form is not the body of a request in flight.
FormFree(f) == \A d \in CallIds : wire[d].transport = "multipart" => wire[d].form # f

newFormDataConcurrent(f) ==
    /\ forms[f] = EmptyForm
    /\ forms' = [forms EXCEPT ![f] = << <<"nzbfile", FileStream>> >>]
    /\ UNCHANGED <<mHost, mApiKey, calls, wire>>

versionConcurrent(c) ==
    /\ calls[c].pc = "idle"
    /\ Dispatch(c, "Types.ts", "version", NoOpt, "version", NoArgs, "json")

queueConcurrent(c) ==
    /\ calls[c].pc = "idle"
    /\ \E nzoIds \in {Undefined, Arr(<<Str("SABnzbd_nzo_a")>>)} :
           Dispatch(c, "Types.ts", "queue",
                    [start |-> Undefined, limit |-> Undefined, search |-> Undefined,
                     nzo_ids |-> nzoIds],
                    "queue",
                    USPArgs(AppendEachIf(<<>>, << <<"nzo_ids", nzoIds, nzoIds>> >>)),
                    "json")

addFileConcurrent(c) ==
    /\ calls[c].pc = "idle"
    /\ \E f \in FormIdsConcurrent, password \in OptPass :
           /\ FormFree(f)
           /\ Post(c, "Types.ts", "addFile",
                   JobOpt(Undefined, password, Undefined, Undefined, Undefined, Undefined),
                   f,
                   AppendEachIf(<< <<"mode", "addfile">>, <<"output", "json">>,
                                   <<"apikey", mApiKey>> >>,
                                JobOptions(Undefined, password, Undefined, Undefined,
                                           Undefined, Undefined)))

\* The answers of the server while calls overlap.
AnswersConcurrent ==
    {<<200, JsonBody("version", Obj([version |-> Str("3.1.1")]))>>,
     <<200, JsonBody("{}", EmptyObject)>>,
     <<200, BadBody("<html>")>>,
     <<204, BadBody("<html>")>>}

FailuresConcurrent == {Err("RequestError", <<"connect ECONNREFUSED">>)}

NextConcurrent ==
    \/ \E f \in FormIdsConcurrent : newFormDataConcurrent(f)
    \/ \E c \in CallIds :
        \/ versionConcurrent(c)
        \/ queueConcurrent(c)
        \/ addFileConcurrent(c)
        \/ \E a \in AnswersConcurrent : gotResponds(c, a[1], a[2])
        \/ \E cause \in FailuresConcurrent : gotFails(c, cause)
        \/ thenCallback(c)
        \/ catchCallback(c)
        \/ resume(c)
        \/ Release(c)

SpecConcurrent == InitConcurrent /\ [][NextConcurrent]_vars

\* The fields an operation of the concurrent callers appends to a form.
OwnFields(req) ==
    AppendEachIf(<< <<"mode", "addfile">>, <<"output", "json">>, <<"apikey", mApiKey>> >>,
                 JobOptions(req.opt.nzbname, req.opt.password, req.opt.cat,
                            req.opt.script, req.opt.priority, req.opt.pp))

\* The request is the one the call's own arguments determine.
OwnRequest(req) ==
    IF req.transport = "query"
    THEN req.params = methodCallParams(req.method, req.args, req.output, mApiKey)
    ELSE req.body = req.given \o OwnFields(req)

\* The promise of methodCall / got.post as the call's own transport outcome
\* determines it.
OwnChain(k) ==
    IF k.got.kind = "error"
    THEN SettleAll(Pending, catchHandler(k.got.error).effects)
    ELSE LET run == thenRun(k)
             p   == SettleAll(Pending, run.effects)
         IN  IF run.thrown = Nothing THEN p
             ELSE SettleAll(p, catchHandler(run.thrown).effects)

\* The promise of the operation as its own transport outcome determines it.
OwnOutcome(k) ==
    IF k.op \in DirectOps THEN OwnChain(k)
    ELSE IF OwnChain(k).state = "pending" THEN Pending
    ELSE SettleAll(Pending, continuation(k.impl, k.op, OwnChain(k)))

\* A step that touches call c leaves every other call and its request as
\* they were.
OneCallPerStep ==
    \A c, d \in CallIds :
        (c # d /\ (calls'[c] # calls[c] \/ wire'[c] # wire[c])) =>
            (calls'[d] = calls[d] /\ wire'[d] = wire[d])

HostsAnyConfig   == Hosts \cup {"", "sabnzbd.local"}
ApiKeysAnyConfig == ApiKeys \cup {""}

InitAnyConfig ==
    /\ mHost \in HostsAnyConfig
    /\ mApiKey \in ApiKeysAnyConfig
    /\ calls = [c \in CallIds |-> IdleCall]
    /\ wire = [c \in CallIds |-> NoRequest]
    /\ forms = [f \in FormIds |-> EmptyForm]

\* new URL(text) accepts an absolute URL and throws a TypeError otherwise.
ValidUrl(text) == text \in {ApiUrl(h) : h \in Hosts}
InvalidUrl     == Err("TypeError", <<"Invalid URL">>)

\* methodCall on any client: when new URL(`${this.mHost}/api`) throws, the
\* executor ends there, the promise of methodCall is rejected with the
\* TypeError and got is not called.
DispatchAnyConfig(c, impl, op, opt, method, args, output) ==
    IF ValidUrl(ApiUrl(mHost))
    THEN Dispatch(c, impl, op, opt, method, args, output)
    ELSE /\ calls' = [calls EXCEPT ![c] =
                        [NewCall(impl, op, output) EXCEPT
                            !.pc = "chained", !.requests = 0,
                            !.chain = Rejected(InvalidUrl)]]
         /\ UNCHANGED <<mHost, mApiKey, wire, forms>>

versionAnyConfig(c) ==
    /\ CallerIdle
    /\ \E impl \in Impls("version") :
           DispatchAnyConfig(c, impl, "version", NoOpt, "version", NoArgs, "json")

queuePauseAnyConfig(c) ==
    /\ CallerIdle
    /\ \E impl \in Impls("queuePause") :
           DispatchAnyConfig(c, impl, "queuePause", NoOpt, "pause", NoArgs, "json")

NextAnyConfig ==
    \E c \in CallIds :
        \/ versionAnyConfig(c)
        \/ queuePauseAnyConfig(c)
        \/ \E a \in AnswersConcurrent : gotResponds(c, a[1], a[2])
        \/ \E cause \in FailuresConcurrent : gotFails(c, cause)
        \/ thenCallback(c)
        \/ catchCallback(c)
        \/ resume(c)
        \/ Release(c)

SpecAnyConfig == InitAnyConfig /\ [][NextAnyConfig]_vars

\* C17: a host that is missing or no URL and a missing key are refused when
\* the client is constructed: every call is made on a client whose host is a
\* URL and whose key is not empty, and no call fails because of them.
C17_ConfigurationCheckedAtConstruction ==
    \A c \in CallIds :
        calls[c].pc # "idle" =>
            /\ ValidUrl(ApiUrl(mHost))
            /\ mApiKey # ""
            /\ calls[c].outer # Rejected(InvalidUrl)

\* The transport failed with an Error and the catch callback has run.
TransportFailed(k) ==
    /\ k.pc \in {"caught", "resumed"}
    /\ k.got.kind = "error"
    /\ k.got.error.isError

\* C18: when the transport fails with a cause, the Transport Error that
\* methodCall, addFile or historyRetryWithNZB rejects with, and the error
\* the caller of the operation receives, contain the message of that cause.
C18_CausePreserved ==
    \A c \in CallIds :
        TransportFailed(calls[c]) =>
            LET k == calls[c] IN
            /\ k.chain.state = "rejected"
            /\ IsTransportError(k.chain.error)
            /\ Contains(k.chain.error.message, k.got.error.message)
            /\ k.outer.state = "rejected" =>
                   Contains(k.outer.error.message, k.got.error.message)

C18_Witness ==
    \E c \in CallIds :
        /\ TransportFailed(calls[c])
        /\ calls[c].op = "addFile"
        /\ calls[c].got.error.message = <<"connect ECONNREFUSED">>
        /\ calls[c].outer.state = "rejected"
        /\ calls[c].outer.error.message =
               <<"Error accessing SABnzbd host", ": ", "connect ECONNREFUSED">>

\* The method selector of a multipart operation.
MultipartMode(op) == IF op = "addFile" THEN "addfile" ELSE "retry"

\* C19: the fields addFile and historyRetryWithNZB append to the form hold,
\* each exactly once, the three mandatory fields methodCall appends to a
\* query string of the same client: mode (addfile, retry), output=json and
\* apikey=<client key>.
C19_MultipartMandatoryFields ==
    \A c \in CallIds :
        wire[c].transport = "multipart" =>
            LET own  == Encoded(wire[c])
                must == MandatoryFields(MultipartMode(wire[c].op), "json", mApiKey)
            IN  \A i \in 1..Len(must) :
                    /\ Count(own, must[i][1]) = 1
                    /\ \E j \in 1..Len(own) : own[j] = must[i]

C19_Witness ==
    /\ mApiKey = "key2"
    /\ \E c \in CallIds :
        /\ wire[c].transport = "multipart"
        /\ wire[c].op = "historyRetryWithNZB"
        /\ SubSeq(Encoded(wire[c]), 1, 3) =
               << <<"mode", "retry">>, <<"output", "json">>, <<"apikey", "key2">> >>

\* C20: addFile and historyRetryWithNZB leave the payload to the caller: the
\* form as the caller handed it in is sent unchanged at the head of the
\* body, and no field the operation appends is a payload field (name,
\* nzbfile).
C20_PayloadOnlyFromCaller ==
    \A c \in CallIds :
        wire[c].transport = "multipart" =>
            /\ SubSeq(wire[c].body, 1, Len(wire[c].given)) = wire[c].given
            /\ Keys(Encoded(wire[c])) \cap PayloadKeys = {}

\* ------------------------------------------------------ statistics
\* serverStats() has resolved: the decoded response and the Stats delivered.
StatsDelivered(k) ==
    /\ k.pc = "resumed"
    /\ k.op = "serverStats"
    /\ k.outer.state = "resolved"

SourceServers(k)  == GetProp(k.got.body.value, "servers")
StatsServers(k)   == k.outer.value.o.servers.m
Lookups           == {"daily", "articles_tried", "articles_success"}

\* C21: serverStats builds one record per server name of the response, and
\* in every record the keys of each of the three lookups are exactly the
\* date keys of the source object of the same name.
C21_LookupKeysAreSourceKeys ==
    \A c \in CallIds :
        StatsDelivered(calls[c]) =>
            LET k == calls[c] IN
            /\ DOMAIN StatsServers(k) = ForInKeys(SourceServers(k))
            /\ \A n \in DOMAIN StatsServers(k) : \A f \in Lookups :
                   DOMAIN StatsServers(k)[n].o[f].m =
                       ForInKeys(GetProp(SourceServers(k).o[n], f))

\* The response with two servers, one of them without daily and with more
\* dates in articles_success than in articles_tried.
C21_Witness ==
    \E c \in CallIds :
        /\ StatsDelivered(calls[c])
        /\ DOMAIN StatsServers(calls[c]) = {"news.example", "backup.example"}
        /\ DOMAIN StatsServers(calls[c])["backup.example"].o.daily.m = {}
        /\ DOMAIN StatsServers(calls[c])["backup.example"].o.articles_success.m =
               {"2021-01-01", "2021-01-02"}
        /\ DOMAIN StatsServers(calls[c])["backup.example"].o.articles_tried.m =
               {"2021-01-01"}

Tallies == {"day", "week", "month", "total"}

\* C22: in every record serverStats builds, each of the three lookups holds
\* at every date of its source object the value that same source object has
\* there, and day, week, month and total are the source's.
C22_LookupValuesAreSourceValues ==
    \A c \in CallIds :
        StatsDelivered(calls[c]) =>
            LET k == calls[c] IN
            \A n \in DOMAIN StatsServers(k) :
                LET src == SourceServers(k).o[n]
                    out == StatsServers(k)[n].o
                IN  /\ \A t \in Tallies : out[t] = GetProp(src, t)
                    /\ \A f \in Lookups : \A d \in ForInKeys(GetProp(src, f)) :
                           out[f].m[d] = GetProp(GetProp(src, f), d)

\* C23: in every record serverStats builds, articles_success holds at every
\* date of the source articles_success the value the source articles_tried
\* has at that date, undefined when articles_tried has no such date.
C23_SuccessReadFromTried ==
    \A c \in CallIds :
        StatsDelivered(calls[c]) =>
            LET k == calls[c] IN
            \A n \in DOMAIN StatsServers(k) :
                LET src == SourceServers(k).o[n]
                    out == StatsServers(k)[n].o.articles_success.m
                IN  \A d \in ForInKeys(GetProp(src, "articles_success")) :
                        /\ out[d] = GetProp(GetProp(src, "articles_tried"), d)
                        /\ d \notin ForInKeys(GetProp(src, "articles_tried")) =>
                               out[d] = Undefined

C23_Witness ==
    \E c \in CallIds :
        /\ StatsDelivered(calls[c])
        /\ "news.example" \in DOMAIN StatsServers(calls[c])
        /\ GetProp(SourceServers(calls[c]).o["news.example"].o.articles_success,
                   "2021-01-01") = Num(6)
        /\ StatsServers(calls[c])["news.example"].o.articles_success.m["2021-01-01"]
               = Num(7)
        /\ StatsServers(calls[c])["backup.example"].o.articles_success.m["2021-01-02"]
               = Undefined

\* ------------------------------------------------------ warnings
\* warnings() has run to its end on a 200 response that is a list of
\* records.
WarningsAnswered(k) ==
    /\ k.pc = "resumed"
    /\ k.op = "warnings"
    /\ k.got.kind = "response"
    /\ k.got.statusCode = 200
    /\ k.got.body.parses
    /\ k.got.body.value.t = "array"
    /\ \A i \in 1..Len(k.got.body.value.a) : k.got.body.value.a[i].t = "object"

\* A record with a non-empty text, a non-zero time and the type 'WARNING'.
ValidRecord(rec) ==
    /\ "text" \in DOMAIN rec.o /\ rec.o.text.t = "string" /\ rec.o.text.s # ""
    /\ "time" \in DOMAIN rec.o /\ rec.o.time.t = "number" /\ rec.o.time.n # 0
    /\ "type" \in DOMAIN rec.o /\ rec.o.type = Str("WARNING")

TranslateAnswered(k) ==
    /\ k.pc = "resumed"
    /\ k.op = "translateText"
    /\ k.got.kind = "response"
    /\ k.got.statusCode = 200
    /\ k.got.body.parses
    /\ k.got.body.value.t = "object"

\* The decoded response has a value field that is a non-empty string.
HasTranslation(r) ==
    /\ "value" \in DOMAIN r.o
    /\ r.o.value.t = "string"
    /\ r.o.value.s # ""

\* What the caller of translateText holds for the response r when the
\* operation does what its documentation says.
TranslationOf(r) ==
    IF HasTranslation(r) THEN Resolved(r.o.value)
    ELSE Rejected(Err("Error",
             <<"Error in API call">> \o
             (IF "error" \in DOMAIN r.o /\ r.o.error.t = "string"
                 /\ r.o.error.s # ""
              THEN <<": ", r.o.error.s>> ELSE <<>>)))

\* C25: translateText resolves to the value field of the response when it
\* is non-empty, and otherwise rejects with 'Error in API call', followed
\* by ': <error>' when the response has an error field.
C25_TranslationDelivered ==
    \A c \in CallIds :
        TranslateAnswered(calls[c]) =>
            calls[c].outer = TranslationOf(calls[c].got.body.value)

\* The same for the translateText of Types.ts alone.
C25_TypesTsDelivers ==
    \A c \in CallIds :
        (TranslateAnswered(calls[c]) /\ calls[c].impl = "Types.ts") =>
            calls[c].outer = TranslationOf(calls[c].got.body.value)

\* The translateText of Client.ts has run to its end on a response with a
\* translation and its promise is still pending.
C25_ClientTsPending ==
    \E c \in CallIds :
        /\ TranslateAnswered(calls[c])
        /\ calls[c].impl = "Client.ts"
        /\ HasTranslation(calls[c].got.body.value)
        /\ calls[c].outer = Pending

\* ------------------------------------------------ URLSearchParams copy
\* A request of methodCall whose caller handed in a URLSearchParams.
SentSearchParams(req) ==
    /\ req.transport = "query"
    /\ req.args.kind = "usp"

\* C26: a request built from a URLSearchParams carries the caller's pairs,
\* the same keys with the same values in the same order, repeated keys
\* included, before the mandatory fields; setConfigDefault sends every
\* keyword of the list it was given.
C26_SearchParamsCopiedFaithfully ==
    \A c \in CallIds :
        SentSearchParams(wire[c]) =>
            /\ Len(wire[c].params) = Len(wire[c].args.p) + 3
            /\ \A i \in 1..Len(wire[c].args.p) :
                   wire[c].params[i] = wire[c].args.p[i]
            /\ (wire[c].op = "setConfigDefault" =>
                   \A i \in 1..Len(wire[c].opt.keyword.a) :
                       <<"keyword", wire[c].opt.keyword.a[i].s>> \in
                           {wire[c].params[j] : j \in 1..Len(wire[c].params)})

\* The copy is faithful for a URLSearchParams in which no key is repeated.
C26_DistinctKeysCopied ==
    \A c \in CallIds :
        (/\ SentSearchParams(wire[c])
         /\ \A i \in 1..Len(wire[c].args.p) :
                Count(wire[c].args.p, wire[c].args.p[i][1]) = 1) =>
            \A i \in 1..Len(wire[c].args.p) :
                wire[c].params[i] = wire[c].args.p[i]

\* setConfigDefault was given two different keywords and the request
\* carries the first one twice.
C26_FirstKeywordTwice ==
    \E c \in CallIds :
        /\ SentSearchParams(wire[c])
        /\ wire[c].op = "setConfigDefault"
        /\ wire[c].opt.keyword.a = <<Str("bandwidth_max"), Str("api_key")>>
        /\ wire[c].params[1] = <<"keyword", "bandwidth_max">>
        /\ wire[c].params[2] = <<"keyword", "bandwidth_max">>

\* --------------------------------------------- the two transports
\* The class of an outcome: resolved with a value, rejected with a
\* Transport Error, rejected with the Decode Error, or pending.
OutcomeClass(p) ==
    CASE p.state = "pending"  -> <<"pending">>
      [] p.state = "resolved" -> <<"resolved", p.value>>
      [] p.state = "rejected" ->
            IF p.error = DecodeError THEN <<"decode error">>
            ELSE IF IsTransportError(p.error) THEN <<"transport error">>
            ELSE <<"other error">>

\* Call c went through got.post and call d through methodCall with output
\* 'json'; both got the same transport outcome and have run their then and
\* catch callbacks.
SameOutcomeOnBothTransports(c, d) ==
    /\ Quiescent(c) /\ Quiescent(d)
    /\ calls[c].op \in MultipartOps
    /\ calls[d].op \notin MultipartOps
    /\ calls[d].output = "json"
    /\ calls[c].got = calls[d].got

\* C27: on the same transport outcome, a multipart operation and methodCall
\* with output 'json' end in the same outcome class.
C27_TransportsClassifyAlike ==
    \A c, d \in CallIds :
        SameOutcomeOnBothTransports(c, d) =>
            OutcomeClass(calls[c].outer) = OutcomeClass(calls[d].chain)

\* They do whenever the outcome is not a 200 response with a body that is
\* no JSON.
C27_AlikeOnParseableBodies ==
    \A c, d \in CallIds :
        (/\ SameOutcomeOnBothTransports(c, d)
         /\ ~(/\ calls[c].got.kind = "response"
              /\ calls[c].got.statusCode = 200
              /\ ~calls[c].got.body.parses)) =>
            OutcomeClass(calls[c].outer) = OutcomeClass(calls[d].chain)

\* A 200 response with a body that is no JSON: addFile rejected with the
\* Decode Error, methodCall with a Transport Error.
C27_DecodeAgainstTransport ==
    \E c, d \in CallIds :
        /\ SameOutcomeOnBothTransports(c, d)
        /\ calls[c].outer = Rejected(DecodeError)
        /\ IsTransportError(calls[d].chain.error)

\* ================================================ a FormData kept
\* A caller that keeps its FormData object after a call and hands it to the
\* next one.  addFile and historyRetryWithNZB append to the object they are
\* given (Types.ts 465-474, 785-790): what a call appended is still in it.
newFormDataReuse(f) ==
    /\ CallerIdle
    /\ forms[f] = EmptyForm
    /\ forms' = [forms EXCEPT ![f] = << <<"nzbfile", FileStream>> >>]
    /\ UNCHANGED <<mHost, mApiKey, calls, wire>>

\* The caller lets go of the object.
dropFormData(f) ==
    /\ CallerIdle
    /\ forms[f] # EmptyForm
    /\ forms' = [forms EXCEPT ![f] = EmptyForm]
    /\ UNCHANGED <<mHost, mApiKey, calls, wire>>

\* The calls the form has been handed to so far.
Posts(f) == Count(forms[f], "mode")

addFileReuse(c) ==
    /\ CallerIdle
    /\ \E f \in FormIds, password \in OptPass :
           /\ Posts(f) < MaxPosts
           /\ Post(c, "Types.ts", "addFile",
                   JobOpt(Undefined, password, Undefined, Undefined, Undefined, Undefined),
                   f,
                   AppendEachIf(<< <<"mode", "addfile">>, <<"output", "json">>,
                                   <<"apikey", mApiKey>> >>,
                                JobOptions(Undefined, password, Undefined, Undefined,
                                           Undefined, Undefined)))

historyRetryWithNZBReuse(c) ==
    /\ CallerIdle
    /\ \E f \in FormIds, id \in Ids :
           /\ Posts(f) < MaxPosts
           /\ Post(c, "Types.ts", "historyRetryWithNZB", [password |-> Undefined], f,
                   AppendEachIf(
                      AppendParam(<< <<"mode", "retry">>, <<"output", "json">>,
                                     <<"apikey", mApiKey>> >>, "value", id)
                        \o << <<"nzbfile", FormItself>> >>,
                      << <<"password", Undefined, Undefined>> >>))

\* The promise of got.post settles; the caller's FormData stays as it is.
gotSettlesReuse(c, outcome) ==
    /\ calls[c].pc = "sent"
    /\ calls' = [calls EXCEPT ![c].got = outcome, ![c].pc = "answered"]
    /\ wire' = [wire EXCEPT ![c] = NoRequest]
    /\ UNCHANGED <<mHost, mApiKey, forms>>

gotRespondsReuse(c, st, body) ==
    /\ st \in StatusCodes
    /\ gotSettlesReuse(c, GotOutcome(st, body))

gotFailsReuse(c, cause) ==
    /\ cause \in Failures
    /\ gotSettlesReuse(c, GotError(cause))

NextReuse ==
    \/ \E f \in FormIds :
        \/ newFormDataReuse(f)
        \/ dropFormData(f)
    \/ \E c \in CallIds :
        \/ addFileReuse(c)
        \/ historyRetryWithNZBReuse(c)
        \/ \E a \in AnswersConcurrent : gotRespondsReuse(c, a[1], a[2])
        \/ \E cause \in FailuresConcurrent : gotFailsReuse(c, cause)
        \/ thenCallback(c)
        \/ catchCallback(c)
        \/ Release(c)

SpecReuse == Init /\ [][NextReuse]_vars

\* C28: every multipart request carries each of mode, output and apikey
\* exactly once, also when the caller hands the same FormData to more than
\* one call.
C28_MandatoryOncePerRequest ==
    \A c \in CallIds :
        wire[c].transport = "multipart" =>
            \A k \in {"mode", "output", "apikey"} : Count(wire[c].body, k) = 1

\* It does when the FormData was not handed to a call before.
C28_OnceOnFirstPost ==
    \A c \in CallIds :
        (wire[c].transport = "multipart" /\ Count(wire[c].given, "mode") = 0) =>
            \A k \in {"mode", "output", "apikey"} : Count(wire[c].body, k) = 1

\* The second call with the same FormData sends the fields of the first:
\* mode=addfile and mode=retry in one request.
C28_BothModesInOneRequest ==
    \E c \in CallIds :
        /\ wire[c].transport = "multipart"
        /\ wire[c].op = "historyRetryWithNZB"
        /\ <<"mode", "addfile">> \in {wire[c].body[i] : i \in 1..Len(wire[c].body)}
        /\ <<"mode", "retry">> \in {wire[c].body[i] : i \in 1..Len(wire[c].body)}
        /\ Count(wire[c].body, "apikey") = 2

\* ------------------------------------------------ job-scoped operations
JobOps == {"jobPause", "jobResume", "jobDelete", "jobChangeName", "changePriority"}

\* The action selector of a job-scoped operation.
Selector(op) ==
    CASE op = "jobPause"       -> "pause"
      [] op = "jobResume"      -> "resume"
      [] op = "jobDelete"      -> "delete"
      [] op = "jobChangeName"  -> "rename"
      [] op = "changePriority" -> "priority"

\* The value the request carries under key k (the first, if several).
Sent(req, k) == req.params[FirstIndex(req.params, k)][2]

\* C29: a job-scoped queue operation sends its fixed action selector in the
\* name field, once, whatever its other arguments: pause, resume, delete,
\* rename, and priority for changePriority.
C29_FixedActionSelector ==
    \A c \in CallIds :
        (wire[c].transport = "query" /\ wire[c].op \in JobOps) =>
            /\ wire[c].method = "queue"
            /\ Count(wire[c].params, "name") = 1
            /\ Sent(wire[c], "name") = Selector(wire[c].op)

\* The four operations other than changePriority do.
C29_FixedSelectorButPriority ==
    \A c \in CallIds :
        (wire[c].transport = "query" /\ wire[c].op \in JobOps \ {"changePriority"}) =>
            /\ wire[c].method = "queue"
            /\ Count(wire[c].params, "name") = 1
            /\ Sent(wire[c], "name") = Selector(wire[c].op)

\* changePriority(id, Priority.High) sends name=1, value=id, value2=1.
C29_PriorityInNameField ==
    \E c \in CallIds :
        /\ wire[c].transport = "query"
        /\ wire[c].op = "changePriority"
        /\ Sent(wire[c], "name") = "1"
        /\ Sent(wire[c], "value") = "SABnzbd_nzo_a"
        /\ Sent(wire[c], "value2") = "1"

\* ------------------------------------------- a required field, any value
\* The field translateText and the requiring operations read.
FieldOf(op) == IF op = "translateText" THEN "value" ELSE RequiredOf(op)

\* The operation has run to its end on a 200 response that is an object.
FieldRead(k) ==
    /\ k.pc = "resumed"
    /\ k.op \in RequiringOps \cup {"translateText"}
    /\ DecodedObject(k)

\* C30: version, auth, getCats, getScripts and translateText resolve to the
\* required field whenever the decoded response contains it, whatever its
\* value (an empty string, an empty list, 0, false), and reject with the
\* Protocol Error only when the field is absent.
C30_PresentFieldResolves ==
    \A c \in CallIds :
        FieldRead(calls[c]) =>
            LET r == calls[c].got.body.value.o
                f == FieldOf(calls[c].op)
            IN  /\ f \in DOMAIN r => calls[c].outer = Resolved(r[f])
                /\ calls[c].outer = Rejected(ProtocolError) => f \notin DOMAIN r

\* An empty list is delivered: getScripts resolves to [].
C30_EmptyListResolves ==
    \A c \in CallIds :
        (/\ FieldRead(calls[c])
         /\ calls[c].op # "translateText"
         /\ FieldOf(calls[c].op) \in DOMAIN calls[c].got.body.value.o
         /\ calls[c].got.body.value.o[FieldOf(calls[c].op)].t = "array") =>
            calls[c].outer = Resolved(calls[c].got.body.value.o[FieldOf(calls[c].op)])

\* version() answered {"version": ""} is rejected with the Protocol Error.
C30_EmptyStringRejected ==
    \E c \in CallIds :
        /\ FieldRead(calls[c])
        /\ calls[c].op = "version"
        /\ calls[c].got.body.value = Obj([version |-> Str("")])
        /\ calls[c].outer = Rejected(ProtocolError)

====
